---- MODULE Spec2Model ----
(***************************************************************************)
(* A model of the streaming session client (MultimodalLiveClient), its     *)
(* message demultiplexer (receive) and the session log store               *)
(* (useLoggerStore).                                                       *)
(*                                                                         *)
(* Eight specifications share the variables:                                *)
(*   Spec       the session transport: connect, the socket's open, error   *)
(*              and close events, disconnect and the three sends;          *)
(*   LiveSpec   the transport with sockets that deliver the close event of *)
(*              a closed socket (weak fairness);                           *)
(*   StreamSpec the transport with inbound frames instead of sends;        *)
(*   DemuxSpec  receive applied to one frame drawn from AllFrames on an    *)
(*              open session;                                              *)
(*   ReasonSpec the close listener applied to one close event whose reason *)
(*              is drawn from CloseReasons, on an open session;            *)
(*   DecodeSpec frames, text messages and blobs that are not JSON arriving *)
(*              on an open session;                                        *)
(*   LabelSpec  sendRealtimeInput applied to a chunk list of ChunkLists on *)
(*              an open session;                                           *)
(*   StoreSpec  either log store (the one of unnamed/part_001, which       *)
(*              merges repeats, or the one of lib/store-logger.ts, which   *)
(*              does not) under addLog, clearLogs and setMaxLogs.          *)
(***************************************************************************)
EXTENDS Integers, Sequences, FiniteSets

\* ------------------------------------------------------------------ bounds
\* Number of sockets (connect calls) a behaviour may create.
MaxSockets == 2
\* Longest event trace a behaviour may record.
MaxTrace == 11
\* Number of frames the application's own calls of send, sendRealtimeInput
\* and sendToolResponse may write in a behaviour.
MaxSends == 1
\* Number of frames whose asynchronous decoding may be in flight at once.
MaxPending == 2
\* Longest modelTurn.parts list of an inbound frame.
MaxParts == 3
\* Number of addLog calls of a behaviour of the log store.
MaxAppends == 5
\* Largest capacity handed to setMaxLogs.
MaxCap == 3
\* Number of messages of a behaviour that are not decoded.
MaxDrops == 2
\* Length of the chunk lists handed to sendRealtimeInput in LabelSpec.
MaxChunks == 3

\* ------------------------------------------------------- program constants
\* The default capacity of the log store.
DefaultMaxLogs == 1000

VARIABLES
  ws,          \* this.ws: the socket the client holds, NoSocket for null
  config,      \* this.config
  nsock,       \* number of WebSocket objects constructed so far
  sockState,   \* per socket: "unused", "connecting", "open", "closing", "failed", "closed"
  errL,        \* per socket: the onError listener is attached
  closeL,      \* per socket: the close listener is attached
  promise,     \* per socket: the promise of the connect call that made it
  connCfg,     \* per socket: the config passed to the connect call that made it
  pending,     \* receive calls suspended at `await blobToJSON(blob)`
  trace,       \* everything observable, in order: events emitted and frames written
  last,        \* the latest public call, "connect", "disconnect" or "send" (any
               \* of the three sends), and whether it failed: returned false,
               \* or raised
  store,       \* which of the repository's two useLoggerStore modules is in
               \* use: "dedup" (unnamed/part_001) or "plain" (lib/store-logger.ts)
  logs,        \* the log store's entries
  maxLogs,     \* the log store's capacity
  clock,       \* the date of the latest log entry (one tick per addLog)
  hist,        \* ghost: the entries appended, consecutive duplicates merged
               \* when the store merges them
  lastKey,     \* ghost: <<type, message>> of the latest append since the last clear
  run,         \* ghost: how many times in a row lastKey has been appended (kept
               \* for the store that merges repeats)
  runBase      \* ghost: the entries stored below the current run's entry

clientVars == <<ws, config, nsock, sockState, errL, closeL, promise, connCfg,
                pending, trace, last>>
storeVars == <<store, logs, maxLogs, clock, hist, lastKey, run, runBase>>
vars == <<ws, config, nsock, sockState, errL, closeL, promise, connCfg,
          pending, trace, last, store, logs, maxLogs, clock, hist, lastKey, run,
          runBase>>

\* ----------------------------------------------------------- sequences
Range(s) == {s[i] : i \in 1..Len(s)}

Last(s) == s[Len(s)]

Front(s) == SubSeq(s, 1, Len(s) - 1)

\* All sequences over S of length at most n.
SeqsUpTo(S, n) == UNION {[1..k -> S] : k \in 0..n}

\* Array.prototype.slice(start) on a 0-based array: a negative start counts
\* from the end, and -0 is 0.
sliceFrom(s, start) ==
  LET from == IF start < 0
              THEN (IF Len(s) + start < 0 THEN 0 ELSE Len(s) + start)
              ELSE (IF start > Len(s) THEN Len(s) ELSE start)
  IN  SubSeq(s, from + 1, Len(s))

\* String.prototype.startsWith on strings held as token sequences.
startsWith(s, prefix) ==
  /\ Len(prefix) <= Len(s)
  /\ SubSeq(s, 1, Len(prefix)) = prefix

\* =================================================================
\* The session log store (useLoggerStore)
\* =================================================================

\* Categories and messages of the entries appended in StoreSpec.
LogTypes == {"client.send", "server.audio"}

LogMessages == {"setup", "buffer (3)"}

\* A StreamingLog as addLog stores it the first time: no count field.
freshLog(date, type, message) ==
  [date |-> date, type |-> type, message |-> message]

\* A StreamingLog as addLog stores it on a repeat.
countedLog(date, type, message, count) ==
  [date |-> date, type |-> type, message |-> message, count |-> count]

\* A plausible slip: the repeat-count is set, never incremented.
nextCountStuck(prevLog) == 1

\* `prevLog.count ? prevLog.count + 1 : 1`
nextCount(prevLog) ==
  IF "count" \in DOMAIN prevLog /\ prevLog.count # 0
  THEN prevLog.count + 1
  ELSE 1

\* A plausible slip: the oldest entries are kept and the newest dropped.
keptBelowOldest(ls, cap) ==
  SubSeq(ls, 1, IF cap - 1 < Len(ls) THEN cap - 1 ELSE Len(ls))

\* `state.logs.slice(-(get().maxLogs - 1))`: the entries kept below a new one.
keptBelow(ls, cap) == sliceFrom(ls, -(cap - 1))

\* The logs after addLog({date, type, message}) on a store holding ls with
\* capacity cap.
addLog(ls, cap, date, type, message) ==
  IF /\ Len(ls) > 0
     /\ Last(ls).type = type
     /\ Last(ls).message = message
  THEN Append(Front(ls), countedLog(date, type, message, nextCount(Last(ls))))
  ELSE Append(keptBelow(ls, cap), freshLog(date, type, message))

\* addLog of the plain store (lib/store-logger.ts):
\* `[...state.logs, log].slice(-state.maxLogs)`.
plainAddLog(ls, cap, entry) == sliceFrom(Append(ls, entry), -cap)

\* addLog({date, type, message}) on the store of unnamed/part_001.
AddLog(type, message) ==
  /\ store = "dedup"
  /\ clock < MaxAppends
  /\ clock' = clock + 1
  /\ logs' = addLog(logs, maxLogs, clock + 1, type, message)
  /\ LET key == <<type, message>>
         merged == lastKey = key
     IN  /\ hist' = IF merged
                    THEN Append(Front(hist), countedLog(clock + 1, type, message, run))
                    ELSE Append(hist, freshLog(clock + 1, type, message))
         /\ run' = IF merged THEN run + 1 ELSE 1
         /\ runBase' = IF merged THEN runBase ELSE Front(logs')
         /\ lastKey' = key
  /\ UNCHANGED <<store, maxLogs>>
  /\ UNCHANGED clientVars

\* addLog({date, type, message}) on the store of lib/store-logger.ts: every
\* entry is stored as it comes, repeats included.
PlainAddLog(type, message) ==
  /\ store = "plain"
  /\ clock < MaxAppends
  /\ clock' = clock + 1
  /\ logs' = plainAddLog(logs, maxLogs, freshLog(clock + 1, type, message))
  /\ hist' = Append(hist, freshLog(clock + 1, type, message))
  /\ lastKey' = <<type, message>>
  /\ UNCHANGED <<store, maxLogs, run, runBase>>
  /\ UNCHANGED clientVars

\* A plausible slip: clear keeps the newest entry (`logs.slice(-1)`).
ClearLogsKeepsLast ==
  /\ store = "dedup"
  /\ logs' = IF logs = <<>> THEN <<>> ELSE <<Last(logs)>>
  /\ lastKey' = <<>>
  /\ run' = 0
  /\ runBase' = <<>>
  /\ UNCHANGED <<store, maxLogs, clock, hist>>
  /\ UNCHANGED clientVars

\* clearLogs() on the store of unnamed/part_001.
ClearLogs ==
  /\ store = "dedup"
  /\ logs' = <<>>
  /\ lastKey' = <<>>
  /\ run' = 0
  /\ runBase' = <<>>
  /\ UNCHANGED <<store, maxLogs, clock, hist>>
  /\ UNCHANGED clientVars

\* clearLogs() on the store of lib/store-logger.ts.
PlainClearLogs ==
  /\ store = "plain"
  /\ logs' = <<>>
  /\ lastKey' = <<>>
  /\ UNCHANGED <<store, maxLogs, clock, hist, run, runBase>>
  /\ UNCHANGED clientVars

\* A plausible slip: the store is trimmed as soon as the capacity changes.
SetMaxLogsTrims(n) ==
  /\ store = "dedup"
  /\ maxLogs' = n
  /\ logs' = sliceFrom(logs, -n)
  /\ UNCHANGED <<store, clock, hist, lastKey, run, runBase>>
  /\ UNCHANGED clientVars

\* setMaxLogs(n); only the store of unnamed/part_001 has it.
SetMaxLogs(n) ==
  /\ store = "dedup"
  /\ maxLogs' = n
  /\ UNCHANGED <<store, logs, clock, hist, lastKey, run, runBase>>
  /\ UNCHANGED clientVars

\* =================================================================
\* Observable effects, in the order the code produces them
\* =================================================================
NoSocket == 0

Sockets == 1..MaxSockets

\* No configuration: connect called with null or undefined.
NullConfig == 0

\* The configuration objects handed to connect: the k-th call may pass its
\* own object, named k.
Configs == 1..MaxSockets

\* One entry of the trace. k is "log" or "emit" (an event handed to the
\* subscribers), "write" (ws.send on socket sock), "recv" (a receive call
\* resumes with the parsed frame arg) or "drop" (a message that is not
\* decoded: ev tells why, arg is the number of receive calls suspended at
\* that moment). sock is the socket concerned: the one written to, or the
\* one whose listener or frame produced the event.
E(k, ev, s, arg) == [k |-> k, ev |-> ev, sock |-> s, arg |-> arg]

\* this.log(type, message): emit('log', {type, message, date}).
log(type, s, message) == E("log", type, s, message)

\* this.emit(ev, arg).
emit(ev, s, arg) == E("emit", ev, s, arg)

\* The frames written on socket s so far, oldest first.
sentOn(t, s) == SelectSeq(t, LAMBDA e : e.k = "write" /\ e.sock = s)

\* The result of a step that may raise.
Ok(t) == [threw |-> FALSE, trace |-> t]

Threw(t) == [threw |-> TRUE, trace |-> t]

\* A plausible slip: the frame goes to the newest socket when none is held.
sendDirectUnguarded(w, t, kind, body) ==
  IF w = NoSocket
  THEN (IF nsock = 0 THEN Ok(t) ELSE Ok(Append(t, E("write", kind, nsock, body))))
  ELSE Ok(Append(t, E("write", kind, w, body)))

\* this._sendDirect(request) on a client holding socket w.
_sendDirect(w, t, kind, body) ==
  IF w = NoSocket
  THEN Threw(t)
  ELSE Ok(Append(t, E("write", kind, w, body)))

\* =================================================================
\* Outbound message builders
\* =================================================================

\* Mime types are held as token sequences: "audio/pcm;rate=24000" is
\* <<"audio", "/pcm", ";rate=24000">>.
includes(s, token) == \E i \in 1..Len(s) : s[i] = token

\* A plausible slip: the scan stops at the first audio chunk.
RECURSIVE scanChunksEarlyBreak(_, _, _, _)
scanChunksEarlyBreak(chunks, i, hasAudio, hasVideo) ==
  IF i > Len(chunks)
  THEN <<hasAudio, hasVideo>>
  ELSE LET a == hasAudio \/ includes(chunks[i].mimeType, "audio")
           v == hasVideo \/ includes(chunks[i].mimeType, "image")
       IN  IF a THEN <<a, v>> ELSE scanChunksEarlyBreak(chunks, i + 1, a, v)

\* The scan of sendRealtimeInput over chunks[i..]: <<hasAudio, hasVideo>>.
RECURSIVE scanChunks(_, _, _, _)
scanChunks(chunks, i, hasAudio, hasVideo) ==
  IF i > Len(chunks)
  THEN <<hasAudio, hasVideo>>
  ELSE LET a == hasAudio \/ includes(chunks[i].mimeType, "audio")
           v == hasVideo \/ includes(chunks[i].mimeType, "image")
       IN  IF a /\ v THEN <<a, v>> ELSE scanChunks(chunks, i + 1, a, v)

realtimeLabel(chunks) ==
  LET f == scanChunks(chunks, 1, FALSE, FALSE)
  IN  IF f[1] /\ f[2] THEN "audio + video"
      ELSE IF f[1] THEN "audio"
      ELSE IF f[2] THEN "video"
      ELSE "unknown"

\* `chunks.map((chunk) => ({ mimeType: chunk.mimeType, data: chunk.data }))`
mediaChunks(chunks) ==
  [i \in 1..Len(chunks) |->
     [mimeType |-> chunks[i].mimeType, data |-> chunks[i].data]]

\* The chunk lists handed to sendRealtimeInput in Spec.
SessionChunks ==
  {<<[mimeType |-> <<"audio", "/pcm", ";rate=16000">>, data |-> 1]>>}

\* The mime types of LabelSpec: audio, image, neither, and one that holds
\* both words.
ChunkMimes ==
  {<<"audio", "/pcm">>, <<"image", "/jpeg">>, <<"text", "/plain">>,
   <<"video", "/mp4">>, <<"image", "/x-", "audio">>}

\* Every chunk list of at most MaxChunks chunks over ChunkMimes; a chunk's
\* data names its position.
ChunkLists ==
  {[i \in 1..Len(ms) |-> [mimeType |-> ms[i], data |-> i]] :
     ms \in SeqsUpTo(ChunkMimes, MaxChunks)}

\* A plausible slip: the log entry is emitted before the frame is written.
sendOpLogsFirst(op, w, t, chunks) ==
  LET kind == IF op = "sendRealtimeInput" THEN "realtimeInput"
              ELSE IF op = "sendToolResponse" THEN "toolResponse"
              ELSE "clientContent"
      entry == IF op = "sendRealtimeInput"
               THEN log("client.realtimeInput", w, realtimeLabel(chunks))
               ELSE IF op = "sendToolResponse"
               THEN log("client.toolResponse", w, "toolResponse")
               ELSE log("client.send", w, "clientContent")
      body == IF op = "sendRealtimeInput" THEN mediaChunks(chunks) ELSE <<>>
  IN  _sendDirect(w, Append(t, entry), kind, body)

\* The three public send operations of a client holding socket w.
sendOp(op, w, t, chunks) ==
  IF op = "sendRealtimeInput"
  THEN LET r == _sendDirect(w, t, "realtimeInput", mediaChunks(chunks))
       IN  IF r.threw THEN r
           ELSE Ok(Append(r.trace, log("client.realtimeInput", w, realtimeLabel(chunks))))
  ELSE IF op = "sendToolResponse"
  THEN LET r == _sendDirect(w, t, "toolResponse", <<>>)
       IN  IF r.threw THEN r
           ELSE Ok(Append(r.trace, log("client.toolResponse", w, "toolResponse")))
  ELSE LET r == _sendDirect(w, t, "clientContent", <<>>)
       IN  IF r.threw THEN r
           ELSE Ok(Append(r.trace, log("client.send", w, "clientContent")))

SendOps == {"send", "sendRealtimeInput", "sendToolResponse"}

\* =================================================================
\* Inbound frames and the message demultiplexer (receive)
\* =================================================================

\* inlineData.data: absent, the empty string, or a non-empty base64 payload
\* (a positive number, naming the part it belongs to).
Undefined == -1

EmptyString == 0

AudioPcm == <<"audio", "/pcm">>

\* The kinds of part of a model turn.
PartKinds == {"pcm", "pcmRate", "pcmEmpty", "pcmNoData", "mp3", "text"}

\* The part of kind kd at position id of a parts list. A text part has no
\* inlineData.
mkPart(kd, id) ==
  [id |-> id,
   inline |-> kd # "text",
   mimeType |-> IF kd = "text" THEN <<>>
                ELSE IF kd = "mp3" THEN <<"audio", "/mp3">>
                ELSE IF kd = "pcmRate" THEN <<"audio", "/pcm", ";rate=24000">>
                ELSE AudioPcm,
   data |-> IF kd = "text" \/ kd = "pcmNoData" THEN Undefined
            ELSE IF kd = "pcmEmpty" THEN EmptyString
            ELSE id]

mkParts(kinds) == [i \in 1..Len(kinds) |-> mkPart(kinds[i], i)]

TopKeys == {"toolCall", "toolCallCancellation", "setupComplete", "serverContent"}

ContentKeys == {"interrupted", "turnComplete", "modelTurn"}

\* What a message event carries. blob: evt.data is a Blob; json: its text
\* parses as JSON; top: the top-level keys of the parsed object; sc: the keys
\* of serverContent; hasParts: modelTurn.parts is an array; parts: that array.
mkData(blob, json, top, sc, hasParts, parts) ==
  [blob |-> blob, json |-> json, top |-> top, sc |-> sc,
   hasParts |-> hasParts, parts |-> parts]

mkFrame(top, sc, hasParts, parts) == mkData(TRUE, TRUE, top, sc, hasParts, parts)

\* A text (non-Blob) message, and a Blob that is not JSON.
NonBlob == mkData(FALSE, FALSE, {}, {}, FALSE, <<>>)

BadJson == mkData(TRUE, FALSE, {}, {}, FALSE, <<>>)

\* Every well-formed frame with at most MaxParts parts.
AllFrames ==
  {mkFrame(top, {}, FALSE, <<>>) : top \in SUBSET (TopKeys \ {"serverContent"})}
  \cup
  {mkFrame(top \cup {"serverContent"}, sc, FALSE, <<>>) :
     top \in SUBSET (TopKeys \ {"serverContent"}), sc \in SUBSET ContentKeys}
  \cup
  {mkFrame(top \cup {"serverContent"}, sc \cup {"modelTurn"}, TRUE, mkParts(kinds)) :
     top \in SUBSET (TopKeys \ {"serverContent"}),
     sc \in SUBSET (ContentKeys \ {"modelTurn"}),
     kinds \in SeqsUpTo(PartKinds, MaxParts)}

\* The frames a server sends in Spec.
SessionFrames ==
  {mkFrame({"setupComplete"}, {}, FALSE, <<>>),
   mkFrame({"serverContent"}, {"turnComplete", "modelTurn"}, TRUE,
           mkParts(<<"pcm", "text">>))}

\* `p.inlineData?.mimeType?.startsWith('audio/pcm')`
isAudioPart(p) == p.inline /\ startsWith(p.mimeType, AudioPcm)

\* lodash difference(array, values): the elements of array not in values.
difference(array, values) == SelectSeq(array, LAMBDA p : p \notin Range(values))

\* base64ToArrayBuffer(b64): the buffer holding the bytes b64 encodes.
base64ToArrayBuffer(b64) == [bytesOf |-> b64]

\* `base64s.forEach(...)`: an audio event and a log entry for each payload
\* that is neither absent nor empty.
RECURSIVE audioEvents(_, _, _)
audioEvents(base64s, i, s) ==
  IF i > Len(base64s)
  THEN <<>>
  ELSE (IF base64s[i] # Undefined /\ base64s[i] # EmptyString
        THEN <<emit("audio", s, base64ToArrayBuffer(base64s[i])),
               log("server.audio", s, "buffer")>>
        ELSE <<>>)
       \o audioEvents(base64s, i + 1, s)

\* A plausible slip: the early return on an empty otherParts is missing.
contentEventsNoReturn(otherParts, response, s) ==
  <<emit("content", s, otherParts), log("server.content", s, "response")>>

\* The end of the modelTurn branch: nothing when no part is left, else one
\* 'content' event with the parts left and a log entry.
contentEvents(otherParts, response, s) ==
  IF Len(otherParts) = 0
  THEN <<>>
  ELSE <<emit("content", s, otherParts), log("server.content", s, "response")>>

\* The modelTurn branch of receive. A modelTurn without a parts array makes
\* parts.filter raise, which ends the call.
modelTurnEvents(response, s) ==
  IF ~response.hasParts
  THEN <<>>
  ELSE LET parts == response.parts
           audioParts == SelectSeq(parts, isAudioPart)
           base64s == [i \in 1..Len(audioParts) |-> audioParts[i].data]
           otherParts == difference(parts, audioParts)
       IN  audioEvents(base64s, 1, s)
           \o contentEvents(otherParts, response, s)

\* The turnComplete test of the serverContent branch.
turnCompleteEvents(response, s) ==
  IF "turnComplete" \in response.sc
  THEN <<log("server.send", s, "turnComplete"), emit("turncomplete", s, <<>>)>>
  ELSE <<>>

\* A plausible slip: the turnComplete test returns like its neighbours.
serverContentEventsTurnStops(response, s) ==
  IF "interrupted" \in response.sc
  THEN <<log("receive.serverContent", s, "interrupted"),
         emit("interrupted", s, <<>>)>>
  ELSE IF "turnComplete" \in response.sc
  THEN turnCompleteEvents(response, s)
  ELSE IF "modelTurn" \in response.sc
  THEN modelTurnEvents(response, s)
  ELSE <<>>

\* A plausible slip: the interrupted test does not return.
serverContentEventsNoStop(response, s) ==
  (IF "interrupted" \in response.sc
   THEN <<log("receive.serverContent", s, "interrupted"),
          emit("interrupted", s, <<>>)>>
   ELSE <<>>)
  \o turnCompleteEvents(response, s)
  \o (IF "modelTurn" \in response.sc
      THEN modelTurnEvents(response, s)
      ELSE <<>>)

\* The serverContent branch of receive: interrupted stops it; otherwise
\* turnComplete, then the model turn.
serverContentEvents(response, s) ==
  IF "interrupted" \in response.sc
  THEN <<log("receive.serverContent", s, "interrupted"),
         emit("interrupted", s, <<>>)>>
  ELSE turnCompleteEvents(response, s)
       \o (IF "modelTurn" \in response.sc
           THEN modelTurnEvents(response, s)
           ELSE <<>>)

\* A plausible slip: an unmatched frame is logged through this.log, not the
\* console.
receiveLogsUnmatched(response, s) ==
  IF "toolCall" \in response.top
  THEN <<log("server.toolCall", s, "response"), emit("toolcall", s, <<>>)>>
  ELSE IF "toolCallCancellation" \in response.top
  THEN <<log("receive.toolCallCancellation", s, "response"),
         emit("toolcallcancellation", s, <<>>)>>
  ELSE IF "setupComplete" \in response.top
  THEN <<log("server.send", s, "setupComplete"), emit("setupcomplete", s, <<>>)>>
  ELSE IF "serverContent" \in response.top
  THEN serverContentEvents(response, s)
  ELSE <<log("server.unmatched", s, "response")>>

\* A plausible slip: the branches do not return, so every key of the frame
\* is dispatched.
receiveNoReturn(response, s) ==
  (IF "toolCall" \in response.top
   THEN <<log("server.toolCall", s, "response"), emit("toolcall", s, <<>>)>>
   ELSE <<>>)
  \o (IF "toolCallCancellation" \in response.top
      THEN <<log("receive.toolCallCancellation", s, "response"),
             emit("toolcallcancellation", s, <<>>)>>
      ELSE <<>>)
  \o (IF "setupComplete" \in response.top
      THEN <<log("server.send", s, "setupComplete"), emit("setupcomplete", s, <<>>)>>
      ELSE <<>>)
  \o (IF "serverContent" \in response.top
      THEN serverContentEvents(response, s)
      ELSE <<>>)

\* What receive emits, in order, once blobToJSON has produced response for a
\* frame of socket s.
receive(response, s) ==
  IF "toolCall" \in response.top
  THEN <<log("server.toolCall", s, "response"), emit("toolcall", s, <<>>)>>
  ELSE IF "toolCallCancellation" \in response.top
  THEN <<log("receive.toolCallCancellation", s, "response"),
         emit("toolcallcancellation", s, <<>>)>>
  ELSE IF "setupComplete" \in response.top
  THEN <<log("server.send", s, "setupComplete"), emit("setupcomplete", s, <<>>)>>
  ELSE IF "serverContent" \in response.top
  THEN serverContentEvents(response, s)
  ELSE <<>>

\* The messages of a trace that were not decoded.
dropsIn(t) == SelectSeq(t, LAMBDA e : e.k = "drop")

\* The message listener: a Blob starts a receive call, which suspends at
\* `await blobToJSON(blob)`; anything else is only written to the console.
OnMessage(s, data) ==
  /\ sockState[s] = "open"
  /\ Len(pending) < MaxPending
  /\ IF data.blob
     THEN /\ pending' = Append(pending, [sock |-> s, response |-> data])
          /\ trace' = trace
     ELSE /\ Len(dropsIn(trace)) < MaxDrops
          /\ pending' = pending
          /\ trace' = Append(trace, E("drop", "non blob message", s, Len(pending)))
  /\ UNCHANGED <<ws, config, nsock, sockState, errL, closeL, promise, connCfg,
                 last>>
  /\ UNCHANGED storeVars

\* blobToJSON(blob): the promise settles some time after the call, each
\* call's on its own. It is fulfilled with the parsed object, given here as
\* a one-element sequence, or rejected, given as the empty sequence, when
\* the blob's text is not JSON.
blobToJSON(blob) == IF blob.json THEN <<blob>> ELSE <<>>

\* A plausible slip: a decoding failure is caught and answered by closing
\* the connection.
ReceiveResumeFatal(i) ==
  /\ i \in 1..Len(pending)
  /\ LET call == pending[i]
         parsed == blobToJSON(call.response)
     IN  /\ Len(trace) <= MaxTrace
         /\ parsed = <<>> => Len(dropsIn(trace)) < MaxDrops
         /\ IF parsed # <<>>
            THEN /\ trace' = trace \o <<E("recv", "frame", call.sock, parsed[1])>>
                                  \o receive(parsed[1], call.sock)
                 /\ UNCHANGED <<ws, sockState>>
            ELSE /\ trace' = trace \o <<log("client.close", call.sock, "Disconnected"),
                                        E("drop", "not json", call.sock,
                                          Len(pending) - 1)>>
                 /\ ws' = NoSocket
                 /\ sockState' = [sockState EXCEPT ![call.sock] = "closing"]
  /\ pending' = SubSeq(pending, 1, i - 1) \o SubSeq(pending, i + 1, Len(pending))
  /\ UNCHANGED <<config, nsock, errL, closeL, promise, connCfg, last>>
  /\ UNCHANGED storeVars

\* blobToJSON settles for the i-th suspended receive call: the call runs to
\* its end, or is abandoned when the text is not JSON.
ReceiveResume(i) ==
  /\ i \in 1..Len(pending)
  /\ LET call == pending[i]
         parsed == blobToJSON(call.response)
         out == IF parsed # <<>>
                THEN <<E("recv", "frame", call.sock, parsed[1])>>
                     \o receive(parsed[1], call.sock)
                ELSE <<E("drop", "not json", call.sock, Len(pending) - 1)>>
     IN  /\ Len(trace) <= MaxTrace
         /\ parsed = <<>> => Len(dropsIn(trace)) < MaxDrops
         /\ trace' = trace \o out
  /\ pending' = SubSeq(pending, 1, i - 1) \o SubSeq(pending, i + 1, Len(pending))
  /\ UNCHANGED <<ws, config, nsock, sockState, errL, closeL, promise, connCfg,
                 last>>
  /\ UNCHANGED storeVars

\* =================================================================
\* Session transport: connect, the socket's events, disconnect, sends
\* =================================================================

\* connect(config): stores the config and constructs a socket with the
\* message and error listeners attached.
Connect(cfg) ==
  /\ nsock < MaxSockets
  /\ cfg \in {nsock + 1, NullConfig}
  /\ nsock' = nsock + 1
  /\ config' = cfg
  /\ sockState' = [sockState EXCEPT ![nsock + 1] = "connecting"]
  /\ errL' = [errL EXCEPT ![nsock + 1] = TRUE]
  /\ promise' = [promise EXCEPT ![nsock + 1] = "pending"]
  /\ connCfg' = [connCfg EXCEPT ![nsock + 1] = cfg]
  /\ last' = [call |-> "connect", failed |-> FALSE]
  /\ UNCHANGED <<ws, closeL, pending, trace>>
  /\ UNCHANGED storeVars

\* What the application's subscribers do when they are told that a socket
\* opened: nothing, or client.send(parts) from a 'log' handler (on the
\* client.open entry), or client.send(parts) from an 'open' handler.
\* Handlers are registered and removed at any time, so each open event
\* meets any of the three.
Subscribers == {"quiet", "sendOnLog", "sendOnOpen"}

\* The subscriber's handler, run inside emit on a client holding socket w.
notify(sb, on, w, t) ==
  IF sb = on THEN sendOp("send", w, t, <<>>) ELSE Ok(t)

\* The open listener of socket s on a client holding socket w with config
\* cfg. An exception raised by a subscriber leaves emit and ends the listener.
openListener(s, sb, w, cfg, t) ==
  IF cfg = NullConfig
  THEN [outcome |-> "rejected", ws |-> w, trace |-> t]
  ELSE LET r1 == notify(sb, "sendOnLog", w,
                        Append(t, log("client.open", s, "connected to socket")))
       IN  IF r1.threw
           THEN [outcome |-> "threw", ws |-> w, trace |-> r1.trace]
           ELSE LET r2 == notify(sb, "sendOnOpen", w,
                                 Append(r1.trace, emit("open", s, <<>>)))
                IN  IF r2.threw
                    THEN [outcome |-> "threw", ws |-> w, trace |-> r2.trace]
                    ELSE LET r3 == _sendDirect(s, r2.trace, "setup", cfg)
                         IN  [outcome |-> "resolved", ws |-> s,
                              trace |-> Append(r3.trace,
                                               log("client.send", s, "setup"))]

\* The socket's open event.
SockOpen(s, sb) ==
  /\ sockState[s] = "connecting"
  /\ LET r == openListener(s, sb, ws, config, trace)
     IN  /\ Len(r.trace) <= MaxTrace
         /\ trace' = r.trace
         /\ ws' = r.ws
         /\ sockState' = [sockState EXCEPT ![s] = "open"]
         /\ errL' = [errL EXCEPT ![s] = r.outcome # "resolved"]
         /\ closeL' = [closeL EXCEPT ![s] = r.outcome = "resolved"]
         /\ promise' = [promise EXCEPT
                          ![s] = IF r.outcome = "threw" THEN @ ELSE r.outcome]
  /\ UNCHANGED <<config, nsock, connCfg, pending, last>>
  /\ UNCHANGED storeVars

\* A plausible slip: disconnect also announces 'close'.
disconnectEmitsClose(arg, w, t) ==
  IF (arg = NoSocket \/ w = arg) /\ w # NoSocket
  THEN [ret |-> TRUE, ws |-> NoSocket, closed |-> w,
        trace |-> t \o <<log("client.close", w, "Disconnected"),
                         emit("close", w, <<>>)>>]
  ELSE [ret |-> FALSE, ws |-> w, closed |-> NoSocket, trace |-> t]

\* A plausible slip: the socket handed to disconnect is not compared with
\* the one the client holds.
disconnectAnySocket(arg, w, t) ==
  IF w # NoSocket
  THEN [ret |-> TRUE, ws |-> NoSocket, closed |-> w,
        trace |-> Append(t, log("client.close", w, "Disconnected"))]
  ELSE [ret |-> FALSE, ws |-> w, closed |-> NoSocket, trace |-> t]

\* A plausible slip: disconnect reports success whether or not it closed.
disconnectAlwaysTrue(arg, w, t) ==
  IF (arg = NoSocket \/ w = arg) /\ w # NoSocket
  THEN [ret |-> TRUE, ws |-> NoSocket, closed |-> w,
        trace |-> Append(t, log("client.close", w, "Disconnected"))]
  ELSE [ret |-> TRUE, ws |-> w, closed |-> NoSocket, trace |-> t]

\* disconnect(arg) on a client holding socket w; arg is NoSocket for a call
\* without argument. closed is the socket whose close() was called.
disconnect(arg, w, t) ==
  IF (arg = NoSocket \/ w = arg) /\ w # NoSocket
  THEN [ret |-> TRUE, ws |-> NoSocket, closed |-> w,
        trace |-> Append(t, log("client.close", w, "Disconnected"))]
  ELSE [ret |-> FALSE, ws |-> w, closed |-> NoSocket, trace |-> t]

\* WebSocket.close(): an open socket starts closing; otherwise nothing.
afterClose(st, s) ==
  IF s # NoSocket /\ st[s] = "open" THEN [st EXCEPT ![s] = "closing"] ELSE st

\* The public disconnect().
Disconnect ==
  /\ LET r == disconnect(NoSocket, ws, trace)
     IN  /\ Len(r.trace) <= MaxTrace
         /\ trace' = r.trace
         /\ ws' = r.ws
         /\ sockState' = afterClose(sockState, r.closed)
         /\ last' = [call |-> "disconnect", failed |-> ~r.ret]
  /\ UNCHANGED <<config, nsock, errL, closeL, promise, connCfg, pending>>
  /\ UNCHANGED storeVars

\* A plausible slip: onError tears down and logs but leaves the promise
\* pending.
SockErrorNoReject(s) ==
  /\ sockState[s] \in {"connecting", "open"}
  /\ errL[s]
  /\ LET r == disconnect(s, ws, trace)
     IN  /\ Len(r.trace) + 1 <= MaxTrace
         /\ trace' = Append(r.trace, log("server.error", s, "Could not connect"))
         /\ ws' = r.ws
         /\ sockState' = [afterClose(sockState, r.closed) EXCEPT ![s] = "failed"]
  /\ UNCHANGED <<config, nsock, errL, closeL, promise, connCfg, pending, last>>
  /\ UNCHANGED storeVars

\* The socket's error event, with onError still attached (the open listener
\* has not run to its end). The socket's close event follows.
SockError(s) ==
  /\ sockState[s] \in {"connecting", "open"}
  /\ errL[s]
  /\ LET r == disconnect(s, ws, trace)
     IN  /\ Len(r.trace) + 1 <= MaxTrace
         /\ trace' = Append(r.trace, log("server.error", s, "Could not connect"))
         /\ ws' = r.ws
         /\ sockState' = [afterClose(sockState, r.closed) EXCEPT ![s] = "failed"]
  /\ promise' = [promise EXCEPT ![s] = IF @ = "pending" THEN "rejected" ELSE @]
  /\ UNCHANGED <<config, nsock, errL, closeL, connCfg, pending, last>>
  /\ UNCHANGED storeVars

\* Strings of the close reason are held as sequences of characters.
toLowerCase(str) ==
  [i \in 1..Len(str) |->
     IF str[i] = "E" THEN "e"
     ELSE IF str[i] = "R" THEN "r"
     ELSE IF str[i] = "O" THEN "o"
     ELSE str[i]]

\* String.prototype.indexOf: the 0-based place of the first occurrence of
\* part in str, -1 when there is none.
indexOf(str, part) ==
  LET at == {i \in 0..(Len(str) - Len(part)) :
               SubSeq(str, i + 1, i + Len(part)) = part}
  IN  IF at = {} THEN -1 ELSE CHOOSE i \in at : \A j \in at : i <= j

\* A plausible slip: the prelude is looked for without its closing bracket.
surfacedReasonNoBracket(evReason) ==
  IF indexOf(toLowerCase(evReason), <<"e", "r", "r", "o", "r">>) >= 0
  THEN LET prelude == <<"E", "R", "R", "O", "R">>
           preludeIndex == indexOf(evReason, prelude)
       IN  IF preludeIndex > 0
           THEN sliceFrom(evReason, preludeIndex + Len(prelude) + 1)
           ELSE evReason
  ELSE evReason

\* The reason the close listener reports for a close event with ev.reason.
surfacedReason(evReason) ==
  IF indexOf(toLowerCase(evReason), <<"e", "r", "r", "o", "r">>) >= 0
  THEN LET prelude == <<"E", "R", "R", "O", "R", "]">>
           preludeIndex == indexOf(evReason, prelude)
       IN  IF preludeIndex > 0
           THEN sliceFrom(evReason, preludeIndex + Len(prelude) + 1)
           ELSE evReason
  ELSE evReason

\* `disconnected ${reason ? `with reason: ${reason}` : ``}`
closeMessage(reason) ==
  IF Len(reason) > 0
  THEN <<"disconnected ", "with reason: ">> \o reason
  ELSE <<"disconnected ">>

\* The reason a server gives in Spec when it closes the session:
\* "x ERROR] bye".
ServerReason == <<"x", " ", "E", "R", "R", "O", "R", "]", " ", "b", "y", "e">>

\* A plausible slip: the close event of a socket the client no longer holds
\* is logged but not announced.
closeListenerSilentWhenStale(s, evReason, w, t) ==
  LET r == disconnect(s, w, t)
      entry == log("server.close", s, closeMessage(surfacedReason(evReason)))
  IN  [ws |-> r.ws, closed |-> r.closed,
       trace |-> IF r.ret
                 THEN r.trace \o <<entry, emit("close", s, [reason |-> evReason])>>
                 ELSE Append(r.trace, entry)]

\* The close listener of socket s.
closeListener(s, evReason, w, t) ==
  LET r == disconnect(s, w, t)
  IN  [ws |-> r.ws, closed |-> r.closed,
       trace |-> r.trace \o <<log("server.close", s, closeMessage(surfacedReason(evReason))),
                              emit("close", s, [reason |-> evReason])>>]

\* The reason of a close event of socket s in Spec and StreamSpec: a close
\* the server started carries the server's reason; one that follows close()
\* carries none.
SessionReason(s) == IF sockState[s] = "open" THEN ServerReason ELSE <<>>

\* The socket's close event with ev.reason = reason, with the close listener
\* attached (a close event of a socket whose open listener never attached it
\* runs no code).
SockClose(s, reason) ==
  /\ sockState[s] \in {"open", "closing"}
  /\ closeL[s]
  /\ LET r == closeListener(s, reason, ws, trace)
     IN  /\ Len(r.trace) <= MaxTrace
         /\ trace' = r.trace
         /\ ws' = r.ws
         /\ sockState' = [afterClose(sockState, r.closed) EXCEPT ![s] = "closed"]
  /\ UNCHANGED <<config, nsock, errL, closeL, promise, connCfg, pending, last>>
  /\ UNCHANGED storeVars

\* The frames written so far other than setup frames.
framesSent(t) == SelectSeq(t, LAMBDA e : e.k = "write" /\ e.ev # "setup")

\* send, sendRealtimeInput and sendToolResponse, called by the application.
Send(op, chunks) ==
  /\ LET r == sendOp(op, ws, trace, chunks)
     IN  /\ Len(r.trace) <= MaxTrace
         /\ Len(framesSent(r.trace)) <= MaxSends
         /\ trace' = r.trace
         /\ last' = [call |-> "send", failed |-> r.threw]
  /\ UNCHANGED <<ws, config, nsock, sockState, errL, closeL, promise, connCfg,
                 pending>>
  /\ UNCHANGED storeVars

\* =================================================================
\* Initial states and specifications
\* =================================================================
ClientInit ==
  /\ ws = NoSocket
  /\ config = NullConfig
  /\ nsock = 0
  /\ sockState = [s \in Sockets |-> "unused"]
  /\ errL = [s \in Sockets |-> FALSE]
  /\ closeL = [s \in Sockets |-> FALSE]
  /\ promise = [s \in Sockets |-> "none"]
  /\ connCfg = [s \in Sockets |-> NullConfig]
  /\ pending = <<>>
  /\ trace = <<>>
  /\ last = [call |-> "none", failed |-> FALSE]

\* A new store of unnamed/part_001.
StoreInit ==
  /\ store = "dedup"
  /\ logs = <<>>
  /\ maxLogs = DefaultMaxLogs
  /\ clock = 0
  /\ hist = <<>>
  /\ lastKey = <<>>
  /\ run = 0
  /\ runBase = <<>>

\* A new store of lib/store-logger.ts.
PlainStoreInit ==
  /\ store = "plain"
  /\ logs = <<>>
  /\ maxLogs = DefaultMaxLogs
  /\ clock = 0
  /\ hist = <<>>
  /\ lastKey = <<>>
  /\ run = 0
  /\ runBase = <<>>

Init == ClientInit /\ StoreInit

\* An idle client with a new store of either module.
StoresInit == ClientInit /\ (StoreInit \/ PlainStoreInit)

StoreNext ==
  \/ \E type \in LogTypes, message \in LogMessages : AddLog(type, message)
  \/ ClearLogs
  \/ \E n \in 1..MaxCap : SetMaxLogs(n)
  \/ \E type \in LogTypes, message \in LogMessages : PlainAddLog(type, message)
  \/ PlainClearLogs

StoreSpec == StoresInit /\ [][StoreNext]_vars

Next ==
  \/ \E cfg \in Configs \cup {NullConfig} : Connect(cfg)
  \/ \E s \in Sockets, sb \in Subscribers : SockOpen(s, sb)
  \/ \E s \in Sockets : SockError(s)
  \/ \E s \in Sockets : SockClose(s, SessionReason(s))
  \/ Disconnect
  \/ \E op \in SendOps, chunks \in SessionChunks : Send(op, chunks)

\* The session transport with a silent server: connects, socket events,
\* disconnects and sends in every order.
Spec == Init /\ [][Next]_vars

StreamNext ==
  \/ \E cfg \in Configs \cup {NullConfig} : Connect(cfg)
  \/ \E s \in Sockets, sb \in Subscribers : SockOpen(s, sb)
  \/ \E s \in Sockets : SockClose(s, SessionReason(s))
  \/ Disconnect
  \/ \E s \in Sockets, data \in SessionFrames : OnMessage(s, data)
  \/ \E i \in 1..MaxPending : ReceiveResume(i)

\* The trace entries that the close events still to come need: two for each
\* socket that close() was called on and whose close listener is attached.
closeReserve(st, cl) ==
  2 * Cardinality({s \in Sockets : st[s] = "closing" /\ cl[s]})

\* The transport without the sends, with room kept in the bounded trace for
\* the close events that are still to come.
LiveNext ==
  /\ \/ \E cfg \in Configs \cup {NullConfig} : Connect(cfg)
     \/ \E s \in Sockets, sb \in Subscribers : SockOpen(s, sb)
     \/ \E s \in Sockets : SockError(s)
     \/ \E s \in Sockets : SockClose(s, SessionReason(s))
     \/ Disconnect
  /\ Len(trace') + closeReserve(sockState', closeL') <= MaxTrace

\* The transport with sockets that deliver their close event: a socket that
\* close() was called on eventually fires 'close'.
LiveSpec ==
  /\ Init
  /\ [][LiveNext]_vars
  /\ \A s \in Sockets : WF_vars(SockClose(s, <<>>) /\ sockState[s] = "closing")

\* The session transport with a server that sends frames, and an
\* application that only connects and disconnects.
StreamSpec == Init /\ [][StreamNext]_vars

\* An open session (connect(config), then the socket's open event) on which
\* one frame of AllFrames has arrived and is being decoded.
DemuxInit ==
  /\ ws = 1
  /\ config = 1
  /\ nsock = 1
  /\ sockState = [s \in Sockets |-> IF s = 1 THEN "open" ELSE "unused"]
  /\ errL = [s \in Sockets |-> FALSE]
  /\ closeL = [s \in Sockets |-> s = 1]
  /\ promise = [s \in Sockets |-> IF s = 1 THEN "resolved" ELSE "none"]
  /\ connCfg = [s \in Sockets |-> IF s = 1 THEN 1 ELSE NullConfig]
  /\ \E f \in AllFrames : pending = <<[sock |-> 1, response |-> f]>>
  /\ trace = openListener(1, "quiet", NoSocket, 1, <<>>).trace
  /\ last = [call |-> "none", failed |-> FALSE]
  /\ StoreInit

DemuxNext == \E i \in 1..Len(pending) : ReceiveResume(i)

DemuxSpec == DemuxInit /\ [][DemuxNext]_vars

\* An open session on which the server sends the frames of SessionFrames,
\* text messages and blobs that are not JSON.
DecodeNext ==
  \/ \E data \in SessionFrames \cup {NonBlob, BadJson} : OnMessage(1, data)
  \/ \E i \in 1..MaxPending : ReceiveResume(i)

\* The close reasons of ReasonSpec, as sequences of characters: a prefix,
\* then the marker in some letter case, with or without its bracket, or no
\* marker, then a tail.
ReasonPrefixes == {<<>>, <<"x">>, <<"x", " ">>, <<"[", "x", "]", " ">>}

ReasonMarkers ==
  {<<>>,
   <<"E", "R", "R", "O", "R", "]">>,
   <<"e", "r", "r", "o", "r", "]">>,
   <<"E", "r", "r", "o", "r", "]">>,
   <<"E", "R", "R", "O", "R">>,
   <<"e", "r", "r", "o", "r">>}

ReasonTails ==
  {<<>>, <<" ">>, <<"b">>, <<" ", "b">>, <<"b", "c">>, <<" ", "b", " ", "c">>}

CloseReasons ==
  {p \o m \o t : p \in ReasonPrefixes, m \in ReasonMarkers, t \in ReasonTails}

\* An open session (connect(config), then the socket's open event) with no
\* frame in flight.
ReasonInit ==
  /\ ws = 1
  /\ config = 1
  /\ nsock = 1
  /\ sockState = [s \in Sockets |-> IF s = 1 THEN "open" ELSE "unused"]
  /\ errL = [s \in Sockets |-> FALSE]
  /\ closeL = [s \in Sockets |-> s = 1]
  /\ promise = [s \in Sockets |-> IF s = 1 THEN "resolved" ELSE "none"]
  /\ connCfg = [s \in Sockets |-> IF s = 1 THEN 1 ELSE NullConfig]
  /\ pending = <<>>
  /\ trace = openListener(1, "quiet", NoSocket, 1, <<>>).trace
  /\ last = [call |-> "none", failed |-> FALSE]
  /\ StoreInit

\* The server closes the session with any reason of CloseReasons.
ReasonNext == \E reason \in CloseReasons : SockClose(1, reason)

ReasonSpec == ReasonInit /\ [][ReasonNext]_vars

DecodeSpec == ReasonInit /\ [][DecodeNext]_vars

\* An open session on which the application calls sendRealtimeInput once,
\* with a chunk list of ChunkLists.
LabelNext ==
  /\ framesSent(trace) = <<>>
  /\ \E chunks \in ChunkLists : Send("sendRealtimeInput", chunks)

LabelSpec == ReasonInit /\ [][LabelNext]_vars

\* =================================================================
\* Claims about the log store
\* =================================================================

\* C8: in the store that merges repeats (unnamed/part_001, the code the claim
\* rests on), appending the same (category, message) k times in a row leaves
\* exactly one stored entry for that run, with no repeat-count when k = 1
\* and repeat-count k - 1 otherwise; the repeated appends do not change the
\* store's length and leave the entries below the run untouched.
C8_DedupRun ==
  run >= 1 =>
    /\ Len(logs) = Len(runBase) + 1
    /\ Front(logs) = runBase
    /\ <<Last(logs).type, Last(logs).message>> = lastKey
    /\ Last(logs).date = clock
    /\ (run = 1 => "count" \notin DOMAIN Last(logs))
    /\ (run > 1 => "count" \in DOMAIN Last(logs) /\ Last(logs).count = run - 1)

\* Three appends in a row of one entry on top of an older, different one.
C8_Witness ==
  /\ run = 3
  /\ Len(logs) = 2
  /\ "count" \in DOMAIN Last(logs)
  /\ Last(logs).count = 2
  /\ "count" \notin DOMAIN logs[1]

\* C9: with a capacity n >= 1 configured, appends and clears keep the store
\* at no more than n entries: a store within its capacity stays within it.
C9_WithinCapacity ==
  [][(maxLogs' = maxLogs /\ Len(logs) <= maxLogs) => Len(logs') <= maxLogs]_vars

\* C10: in either store, the stored entries are a contiguous most-recent
\* suffix of the appended entries (consecutive duplicates merged, in the
\* store that merges them), in append order.
C10_FifoSuffix ==
  \E k \in 0..Len(hist) : logs = SubSeq(hist, k + 1, Len(hist))

\* Capacity 2, three distinct appends: the last two are left, oldest first.
C10_Witness ==
  /\ maxLogs = 2
  /\ Len(hist) = 3
  /\ clock = 3
  /\ logs = SubSeq(hist, 2, 3)
  /\ logs[1].date = 2
  /\ logs[2].date = 3

\* =================================================================
\* Claims about the session transport
\* =================================================================

\* The places of the trace where event ev is emitted for socket s.
emitsOf(ev, s) ==
  {i \in 1..Len(trace) :
     trace[i].k = "emit" /\ trace[i].ev = ev /\ trace[i].sock = s}

\* The places of the trace where a setup frame is written on socket s.
setupsOn(s) ==
  {i \in 1..Len(trace) :
     trace[i].k = "write" /\ trace[i].ev = "setup" /\ trace[i].sock = s}

\* C1: 'open' is emitted for a socket only after the setup envelope has
\* been written on that socket.
C1_OpenAfterSetup ==
  \A s \in Sockets : \A i \in emitsOf("open", s) :
    \E j \in setupsOn(s) : j < i

\* The places of the trace where a log entry of category type is emitted for
\* socket s.
logsOf(type, s) ==
  {i \in 1..Len(trace) :
     trace[i].k = "log" /\ trace[i].ev = type /\ trace[i].sock = s}

\* C2: on every socket the client creates and sees open (its open listener
\* found a configuration and logged client.open), the first frame written is
\* the setup envelope and the setup envelope is written exactly once,
\* whatever the subscribers do from their 'open' and 'log' handlers and
\* however connect calls overlap.
C2_SetupFirstAndOnce ==
  \A s \in Sockets :
    /\ Len(sentOn(trace, s)) > 0 => sentOn(trace, s)[1].ev = "setup"
    /\ Cardinality(setupsOn(s)) <= 1
    /\ logsOf("client.open", s) # {} => Cardinality(setupsOn(s)) = 1

\* C3: while the client holds no connection, each of send,
\* sendRealtimeInput and sendToolResponse raises to its caller, writes no
\* frame and leaves nothing behind: no part of the state changes.
C3_SendWhileClosedFails ==
  [][\A op \in SendOps, chunks \in SessionChunks :
       (ws = NoSocket /\ Send(op, chunks)) =>
         /\ last' = [call |-> "send", failed |-> TRUE]
         /\ trace' = trace
         /\ pending' = pending
         /\ sockState' = sockState]_vars

\* A send raised after disconnect() had closed the connection.
C3_Witness ==
  /\ last = [call |-> "send", failed |-> TRUE]
  /\ ws = NoSocket
  /\ sockState[1] = "closing"
  /\ Len(sentOn(trace, 1)) = 1

\* C4: disconnect() while a connection is held closes the socket, clears
\* the connection and returns true; while none is held it returns false,
\* closes nothing, emits no log entry and changes no state.
C4_DisconnectIdempotent ==
  [][Disconnect =>
       IF ws # NoSocket
       THEN /\ last' = [call |-> "disconnect", failed |-> FALSE]
            /\ ws' = NoSocket
            /\ sockState[ws] = "open"
            /\ sockState' = [sockState EXCEPT ![ws] = "closing"]
            /\ trace' = Append(trace, log("client.close", ws, "Disconnected"))
       ELSE /\ last' = [call |-> "disconnect", failed |-> TRUE]
            /\ ws' = ws
            /\ sockState' = sockState
            /\ trace' = trace
            /\ config' = config]_vars

\* disconnect() returned false after an earlier disconnect() had closed the
\* connection: the client.close entry is the latest thing observed.
C4_Witness ==
  /\ last = [call |-> "disconnect", failed |-> TRUE]
  /\ ws = NoSocket
  /\ sockState[1] = "closing"
  /\ Len(trace) > 0
  /\ trace[Len(trace)].k = "log"
  /\ trace[Len(trace)].ev = "client.close"

\* C5: 'close' is emitted at most once for each socket.
C5_CloseAtMostOnce ==
  \A s \in Sockets : Cardinality(emitsOf("close", s)) <= 1

\* A socket closed by disconnect() whose close event then arrived: one
\* 'close' event, after the client.close entry.
C5_Witness ==
  \E i, j \in 1..Len(trace) :
    /\ i < j
    /\ trace[i].k = "log" /\ trace[i].ev = "client.close" /\ trace[i].sock = 1
    /\ trace[j].k = "emit" /\ trace[j].ev = "close" /\ trace[j].sock = 1
    /\ sockState[1] = "closed"
    /\ last.call = "disconnect"

\* C13: a socket that reported an error without its open listener having
\* announced it has its connect promise rejected, no 'open' event and no
\* setup frame, and is not the connection the client holds, then and ever
\* after.
C13_ErrorBeforeOpen ==
  \A s \in Sockets :
    (sockState[s] = "failed" /\ logsOf("client.open", s) = {}) =>
      /\ promise[s] = "rejected"
      /\ logsOf("server.error", s) # {}
      /\ emitsOf("open", s) = {}
      /\ setupsOn(s) = {}
      /\ ws # s

\* connect(config), then the socket's error event: the promise is rejected
\* and the server.error entry is all that was observed.
C13_Witness ==
  /\ nsock = 1
  /\ connCfg[1] = 1
  /\ sockState[1] = "failed"
  /\ promise[1] = "rejected"
  /\ ws = NoSocket
  /\ trace = <<log("server.error", 1, "Could not connect")>>

\* C14: a connect call made while an earlier socket of the client (one made
\* by a connect call with a configuration) is still connecting or open never
\* resolves: of two sockets, the later one's connect has not succeeded while
\* the earlier one is in flight or open.
C14_SecondConnectRejected ==
  \A s, t \in Sockets :
    (/\ s < t
     /\ connCfg[s] # NullConfig
     /\ sockState[s] \in {"connecting", "open"}) =>
      promise[t] # "resolved"

\* C15: at most one socket of the client is open at any time, counting the
\* sockets whose connect resolved and whose close event has not arrived.
C15_AtMostOneOpen ==
  Cardinality({s \in Sockets : sockState[s] = "open" /\ promise[s] = "resolved"}) <= 1

\* C19: a socket made by a connect call without configuration never opens a
\* session: its promise never resolves, no 'open' event is emitted and no
\* setup frame is written for it, and the client never holds it.
C19_NoConfigNeverOpens ==
  \A s \in Sockets :
    (sockState[s] # "unused" /\ connCfg[s] = NullConfig) =>
      /\ promise[s] # "resolved"
      /\ emitsOf("open", s) = {}
      /\ setupsOn(s) = {}
      /\ ws # s

\* =================================================================
\* Claims about the close reason
\* =================================================================

\* The 0-based place of the marker 'error]' in a reason, in any letter case;
\* -1 when the reason holds none.
markerAt(reason) ==
  indexOf(toLowerCase(reason), <<"e", "r", "r", "o", "r", "]">>)

\* The message of the server.close entry logged just before the 'close'
\* event at place i of the trace.
closeEntry(i) == trace[i - 1]

\* C11: a close reason holding the marker 'error]', in any letter case and
\* after any prefix (the empty one included), is surfaced in the close log
\* entry as the text after the marker only (with or without the one
\* separator that follows the marker), never as the full reason.
C11_MarkerStripped ==
  \A s \in Sockets : \A i \in emitsOf("close", s) :
    LET reason == trace[i].arg.reason
        m == markerAt(reason)
    IN  m >= 0 =>
          /\ closeEntry(i).ev = "server.close"
          /\ closeEntry(i).arg \in {closeMessage(sliceFrom(reason, m + 6)),
                                     closeMessage(sliceFrom(reason, m + 7))}

\* C12: a close reason without the marker 'error]' (the empty reason and a
\* reason holding the word 'error' without the bracket included) is
\* surfaced unchanged in the server.close log entry, and every socket whose
\* close listener ran has had its 'close' event emitted, right after that
\* entry.
C12_PlainReasonVerbatim ==
  \A s \in Sockets :
    sockState[s] = "closed" =>
      \E i \in emitsOf("close", s) :
        /\ i > 1
        /\ closeEntry(i).k = "log"
        /\ closeEntry(i).ev = "server.close"
        /\ closeEntry(i).sock = s
        /\ markerAt(trace[i].arg.reason) < 0 =>
             closeEntry(i).arg = closeMessage(trace[i].arg.reason)

\* The session was closed with the reason "x ERROR b": the log entry reads
\* "disconnected with reason: x ERROR b" and 'close' was emitted.
C12_Witness ==
  /\ sockState[1] = "closed"
  /\ Len(trace) > 1
  /\ trace[Len(trace)] = emit("close", 1, [reason |-> <<"x", " ", "E", "R", "R", "O", "R", " ", "b">>])
  /\ closeEntry(Len(trace)) =
       log("server.close", 1,
           <<"disconnected ", "with reason: ", "x", " ", "E", "R", "R", "O", "R", " ", "b">>)

\* =================================================================
\* Claims about the message demultiplexer
\* =================================================================

\* The place of the trace where the latest receive call resumed, 0 if none.
recvAt ==
  LET at == {i \in 1..Len(trace) : trace[i].k = "recv"}
  IN  IF at = {} THEN 0 ELSE CHOOSE i \in at : \A j \in at : j <= i

\* The frame of that call and what followed it in the trace.
recvFrame == trace[recvAt].arg

recvOut == SubSeq(trace, recvAt + 1, Len(trace))

\* The payloads of an event in a piece of trace, in order.
payloads(t, ev) ==
  LET hits == SelectSeq(t, LAMBDA e : e.k = "emit" /\ e.ev = ev)
  IN  [i \in 1..Len(hits) |-> hits[i].arg]

\* The frame is handled by the modelTurn branch: serverContent is the first
\* recognised key, there is no interrupted, and modelTurn.parts is an array.
reachesModelTurn(f) ==
  /\ f.top = {"serverContent"}
  /\ "interrupted" \notin f.sc
  /\ "modelTurn" \in f.sc
  /\ f.hasParts

\* An audio part in the words of the claim: inline data whose mime type
\* starts with audio/pcm.
claimAudio(p) ==
  /\ p.inline
  /\ Len(p.mimeType) >= 2
  /\ p.mimeType[1] = "audio"
  /\ p.mimeType[2] = "/pcm"

\* A frame mixing audio parts and other parts.
mixedFrame(f) ==
  /\ reachesModelTurn(f)
  /\ \E i \in 1..Len(f.parts) : claimAudio(f.parts[i])
  /\ \E i \in 1..Len(f.parts) : ~claimAudio(f.parts[i])

\* C6: a frame mixing audio parts and other parts emits one
\* 'audio' event per audio part, in order, and one 'content' event with
\* exactly the other parts, in order.
C6_OneAudioPerAudioPart ==
  (recvAt > 0 /\ mixedFrame(recvFrame)) =>
    LET audio == SelectSeq(recvFrame.parts, claimAudio)
        other == SelectSeq(recvFrame.parts, LAMBDA p : ~claimAudio(p))
    IN  /\ payloads(recvOut, "audio") = [i \in 1..Len(audio) |-> [bytesOf |-> audio[i].data]]
        /\ payloads(recvOut, "content") = <<other>>

\* C7: a frame whose modelTurn.parts holds only audio/pcm parts, or no part
\* at all, never emits 'content', with or without turnComplete; when the
\* modelTurn branch handles it, its audio payloads are emitted in order.
C7_AllAudioNoContent ==
  (/\ recvAt > 0
   /\ "serverContent" \in recvFrame.top
   /\ "modelTurn" \in recvFrame.sc
   /\ recvFrame.hasParts
   /\ \A i \in 1..Len(recvFrame.parts) : claimAudio(recvFrame.parts[i])) =>
    /\ payloads(recvOut, "content") = <<>>
    /\ reachesModelTurn(recvFrame) =>
         LET audio == SelectSeq(recvFrame.parts,
                                LAMBDA p : p.data # Undefined /\ p.data # EmptyString)
         IN  payloads(recvOut, "audio") = [i \in 1..Len(audio) |-> [bytesOf |-> audio[i].data]]

\* An all-audio frame that also carries turnComplete: 'turncomplete' and two
\* 'audio' events, no 'content'.
C7_Witness ==
  /\ recvAt > 0
  /\ reachesModelTurn(recvFrame)
  /\ "turnComplete" \in recvFrame.sc
  /\ Len(recvFrame.parts) = 2
  /\ \A i \in 1..2 : claimAudio(recvFrame.parts[i])
  /\ Len(payloads(recvOut, "audio")) = 2
  /\ Len(payloads(recvOut, "turncomplete")) = 1
  /\ payloads(recvOut, "content") = <<>>

\* The names of the events handed to the subscribers in a piece of trace,
\* log entries aside, in order.
emitted(t) ==
  LET hits == SelectSeq(t, LAMBDA e : e.k = "emit")
  IN  [i \in 1..Len(hits) |-> hits[i].ev]

\* C16: a frame is dispatched on the first key it holds in the order
\* toolCall, toolCallCancellation, setupComplete, serverContent: that key's
\* event is emitted exactly once and no event of a later key is emitted; a
\* serverContent frame emits none of the three events of the keys before
\* it, and a frame with none of the four keys emits nothing.
C16_FirstKeyWins ==
  recvAt > 0 =>
    IF "toolCall" \in recvFrame.top
    THEN emitted(recvOut) = <<"toolcall">>
    ELSE IF "toolCallCancellation" \in recvFrame.top
    THEN emitted(recvOut) = <<"toolcallcancellation">>
    ELSE IF "setupComplete" \in recvFrame.top
    THEN emitted(recvOut) = <<"setupcomplete">>
    ELSE IF "serverContent" \in recvFrame.top
    THEN Range(emitted(recvOut)) \cap
           {"toolcall", "toolcallcancellation", "setupcomplete"} = {}
    ELSE recvOut = <<>>

\* A frame holding toolCall and a serverContent with turnComplete and a
\* model turn of two parts emitted 'toolcall' and nothing else.
C16_Witness ==
  /\ recvAt > 0
  /\ recvFrame.top = {"toolCall", "serverContent"}
  /\ recvFrame.sc = {"turnComplete", "modelTurn"}
  /\ Len(recvFrame.parts) = 2
  /\ emitted(recvOut) = <<"toolcall">>
  /\ Len(recvOut) = 2

\* C20: a frame dispatched as serverContent that holds interrupted emits
\* the 'interrupted' event (after its log entry) and nothing else, whatever
\* else the frame carries: no 'turncomplete', 'audio' or 'content'.
C20_InterruptedStops ==
  (/\ recvAt > 0
   /\ recvFrame.top = {"serverContent"}
   /\ "interrupted" \in recvFrame.sc) =>
    recvOut = <<log("receive.serverContent", 1, "interrupted"),
                emit("interrupted", 1, <<>>)>>

\* A frame with interrupted, turnComplete and a model turn holding an audio
\* part and a text part emitted 'interrupted' only.
C20_Witness ==
  /\ recvAt > 0
  /\ recvFrame.top = {"serverContent"}
  /\ recvFrame.sc = {"interrupted", "turnComplete", "modelTurn"}
  /\ Len(recvFrame.parts) = 2
  /\ claimAudio(recvFrame.parts[1])
  /\ recvFrame.parts[1].data = 1
  /\ ~recvFrame.parts[2].inline
  /\ emitted(recvOut) = <<"interrupted">>

\* =================================================================
\* Claims about frames in flight
\* =================================================================

\* The events of the application that receive emits.
FrameEvents ==
  {"toolcall", "toolcallcancellation", "setupcomplete", "interrupted",
   "turncomplete", "audio", "content"}

\* The suspended receive call c will emit events when it resumes.
willEmit(c) ==
  /\ blobToJSON(c.response) # <<>>
  /\ receive(blobToJSON(c.response)[1], c.sock) # <<>>

\* C17: events are emitted in frame arrival order: on a socket whose connect
\* resolved, a receive call that resumes and emits never overtakes another,
\* that is, no frame that arrived earlier on the same socket, differs from
\* it and will emit events is still waiting for its decoding.
C17_ArrivalOrder ==
  [][\A i \in 1..MaxPending :
       (/\ i <= Len(pending)
        /\ promise[pending[i].sock] = "resolved"
        /\ willEmit(pending[i])
        /\ ReceiveResume(i)) =>
         \A j \in 1..(i - 1) :
           ~(/\ pending[j].sock = pending[i].sock
             /\ pending[j] # pending[i]
             /\ willEmit(pending[j]))]_vars

\* C18: once disconnect() has closed a connection (its client.close entry
\* is in the trace), no event of FrameEvents is emitted for a frame of that
\* connection.
C18_NoEventsAfterDisconnect ==
  \A s \in Sockets : \A i \in logsOf("client.close", s) :
    \A j \in (i + 1)..Len(trace) :
      ~(trace[j].k = "emit" /\ trace[j].sock = s /\ trace[j].ev \in FrameEvents)

\* =================================================================
\* More claims about the message demultiplexer
\* =================================================================

\* The places of a piece of trace where event ev is emitted.
placesOf(t, ev) == {i \in 1..Len(t) : t[i].k = "emit" /\ t[i].ev = ev}

\* C21: a frame dispatched as serverContent that holds turnComplete and a
\* model turn, and no interrupted, emits 'turncomplete' exactly once, and
\* also the events of its model turn: an 'audio' event for each audio part
\* with a payload and a 'content' event with the other parts, if any; every
\* one of these comes after 'turncomplete'.
C21_TurnCompleteThenContent ==
  (/\ recvAt > 0
   /\ recvFrame.top = {"serverContent"}
   /\ "interrupted" \notin recvFrame.sc
   /\ "turnComplete" \in recvFrame.sc
   /\ "modelTurn" \in recvFrame.sc
   /\ recvFrame.hasParts) =>
    LET audio == SelectSeq(recvFrame.parts,
                           LAMBDA p : claimAudio(p) /\ p.data # Undefined
                                      /\ p.data # EmptyString)
        other == SelectSeq(recvFrame.parts, LAMBDA p : ~claimAudio(p))
    IN  /\ Cardinality(placesOf(recvOut, "turncomplete")) = 1
        /\ \A i \in placesOf(recvOut, "turncomplete") :
             \A j \in placesOf(recvOut, "audio") \cup placesOf(recvOut, "content") :
               i < j
        /\ payloads(recvOut, "audio") = [i \in 1..Len(audio) |-> [bytesOf |-> audio[i].data]]
        /\ payloads(recvOut, "content") = IF other = <<>> THEN <<>> ELSE <<other>>

\* The frame {turnComplete, modelTurn: [text, audioPCM]} emitted
\* 'turncomplete', then 'audio', then 'content'.
C21_Witness ==
  /\ recvAt > 0
  /\ recvFrame.top = {"serverContent"}
  /\ recvFrame.sc = {"turnComplete", "modelTurn"}
  /\ Len(recvFrame.parts) = 2
  /\ ~recvFrame.parts[1].inline
  /\ claimAudio(recvFrame.parts[2])
  /\ emitted(recvOut) = <<"turncomplete", "audio", "content">>

\* C22: a well-formed frame with none of the keys toolCall,
\* toolCallCancellation, setupComplete, serverContent hands nothing to the
\* subscribers, no log entry either, and leaves the connection, its socket
\* and the stored configuration as they were.
C22_UnmatchedIgnored ==
  [][\A i \in 1..MaxPending :
       (/\ i <= Len(pending)
        /\ blobToJSON(pending[i].response) # <<>>
        /\ pending[i].response.top \cap TopKeys = {}
        /\ ReceiveResume(i)) =>
         /\ trace' = Append(trace, E("recv", "frame", pending[i].sock,
                                     pending[i].response))
         /\ ws' = ws
         /\ config' = config
         /\ sockState' = sockState]_vars

\* A frame without any of the four keys was received on the open session:
\* nothing followed it and the session is open.
C22_Witness ==
  /\ recvAt > 0
  /\ recvFrame.top = {}
  /\ recvOut = <<>>
  /\ ws = 1
  /\ sockState[1] = "open"
  /\ config = 1

\* ---------------------------------------------------------------
\* Claims about messages that are not decoded (DecodeSpec)
\* ---------------------------------------------------------------

\* What the subscribers are owed for a frame f of SessionFrames received on
\* socket 1, after the mark of its receive call.
expectedOf(f) ==
  <<E("recv", "frame", 1, f)>>
  \o (IF "setupComplete" \in f.top
      THEN <<log("server.send", 1, "setupComplete"),
             emit("setupcomplete", 1, <<>>)>>
      ELSE <<log("server.send", 1, "turnComplete"),
             emit("turncomplete", 1, <<>>),
             emit("audio", 1, [bytesOf |-> 1]),
             log("server.audio", 1, "buffer"),
             emit("content", 1, <<mkPart("text", 2)>>),
             log("server.content", 1, "response")>>)

\* t is a run of complete dispatches of frames of SessionFrames.
RECURSIVE dispatchedNormally(_)
dispatchedNormally(t) ==
  \/ t = <<>>
  \/ \E f \in SessionFrames :
       LET x == expectedOf(f)
       IN  /\ Len(t) >= Len(x)
           /\ SubSeq(t, 1, Len(x)) = x
           /\ dispatchedNormally(SubSeq(t, Len(x) + 1, Len(t)))

\* C23: a message that cannot be decoded (a text message, or a blob that is
\* not JSON) emits no application event and leaves the session as it was:
\* the socket stays open and current, the config stays, and with the
\* undecoded messages left out the trace is the opening of the session
\* followed by the complete dispatch of every decoded frame.
C23_UndecodableDropped ==
  LET start == openListener(1, "quiet", NoSocket, 1, <<>>).trace
      seen == SelectSeq(trace, LAMBDA e : e.k # "drop")
  IN  /\ ws = 1
      /\ config = 1
      /\ sockState[1] = "open"
      /\ closeL[1]
      /\ Len(seen) >= Len(start)
      /\ SubSeq(seen, 1, Len(start)) = start
      /\ dispatchedNormally(SubSeq(seen, Len(start) + 1, Len(seen)))

\* C23 witness: a text message and a blob that is not JSON were both dropped
\* while no receive call was suspended, and the content frame that arrived
\* after them has been dispatched in full.
C23_Witness ==
  \E i, j, m \in 1..Len(trace) :
    /\ i < m /\ j < m
    /\ trace[i] = E("drop", "not json", 1, 0)
    /\ trace[j] = E("drop", "non blob message", 1, 0)
    /\ trace[m].k = "recv"
    /\ "serverContent" \in trace[m].arg.top
    /\ Len(trace) = m + 6
    /\ trace[m + 5].ev = "content"

\* ---------------------------------------------------------------
\* More claims about the session transport (Spec)
\* ---------------------------------------------------------------

\* C24: the setup envelope written on a socket carries the configuration of
\* the connect call that created that socket, whatever connect calls
\* followed before the socket opened.
C24_SetupCarriesOwnConfig ==
  \A s \in Sockets :
    connCfg[s] # NullConfig =>
      \A i \in setupsOn(s) : trace[i].arg = connCfg[s]

\* C25: after connect has been called once, once disconnect() has been
\* called and until the application calls the client again, the client
\* holds no connection: a connect attempt that was in flight when
\* disconnect() was called is abandoned.
C25_DisconnectCancelsAttempt ==
  (nsock = 1 /\ last.call = "disconnect") => ws = NoSocket

\* ---------------------------------------------------------------
\* Claims about sendRealtimeInput (LabelSpec)
\* ---------------------------------------------------------------

\* The label the claim gives to a chunk list.
claimLabel(chunks) ==
  LET anyAudio == \E i \in 1..Len(chunks) : includes(chunks[i].mimeType, "audio")
      anyImage == \E i \in 1..Len(chunks) : includes(chunks[i].mimeType, "image")
  IN  IF anyAudio /\ anyImage THEN "audio + video"
      ELSE IF anyAudio THEN "audio"
      ELSE IF anyImage THEN "video"
      ELSE "unknown"

\* C26: sendRealtimeInput on an open session writes one frame carrying
\* every chunk in order, then logs client.realtimeInput with the label that
\* the whole chunk list determines: 'audio + video', 'audio', 'video' or
\* 'unknown', wherever the scan stopped.
C26_LabelOfChunkList ==
  [][\A chunks \in ChunkLists :
       Send("sendRealtimeInput", chunks) =>
         trace' = trace \o <<E("write", "realtimeInput", ws, chunks),
                              log("client.realtimeInput", ws, claimLabel(chunks))>>]_vars

\* C26 witness: the scan stopped after an audio chunk and an image chunk,
\* and the frame still carries the text chunk that follows them.
C26_Witness ==
  /\ Len(trace) >= 2
  /\ LET w == trace[Len(trace) - 1]
     IN  /\ w.k = "write" /\ w.ev = "realtimeInput"
         /\ Len(w.arg) = 3
         /\ w.arg[1].mimeType = <<"audio", "/pcm">>
         /\ w.arg[2].mimeType = <<"image", "/jpeg">>
         /\ w.arg[3].mimeType = <<"text", "/plain">>
  /\ Last(trace) = log("client.realtimeInput", 1, "audio + video")

\* ---------------------------------------------------------------
\* More claims about closing (Spec)
\* ---------------------------------------------------------------

\* The log entries that a step adds to the trace.
newLogs == {trace'[i].ev : i \in {j \in Len(trace) + 1..Len(trace') : trace'[j].k = "log"}}

\* C27: lifecycle log entries are tagged by who started the transition: the
\* close event of a socket that the server closed (it was still open) adds
\* only server.* entries, and a disconnect() that closes the connection adds
\* only client.* entries, the client.close entry among them.
C27_TaggedByInitiator ==
  [][/\ \A s \in Sockets :
          (sockState[s] = "open" /\ SockClose(s, SessionReason(s))) =>
            newLogs = {"server.close"}
     /\ (ws # NoSocket /\ Disconnect) => newLogs = {"client.close"}]_vars

\* ---------------------------------------------------------------
\* More claims about the log store (StoreSpec)
\* ---------------------------------------------------------------

\* C28: in either store, clear() empties the store, whatever it holds and
\* whatever its capacity, and leaves the capacity as it was; the first
\* append after a clear (or on a new store) leaves exactly one entry, the
\* appended one, without a repeat-count, whatever was stored before the
\* clear.
C28_ClearThenFresh ==
  [][/\ (ClearLogs \/ PlainClearLogs) => (logs' = <<>> /\ maxLogs' = maxLogs)
     /\ \A type \in LogTypes, message \in LogMessages :
          (/\ lastKey = <<>>
           /\ AddLog(type, message) \/ PlainAddLog(type, message)) =>
            logs' = <<freshLog(clock + 1, type, message)>>]_vars

\* C28 witness: with capacity 2, an entry was appended twice in a row
\* (stored with a count), the store was cleared, and the same entry appended
\* again is alone in the store, without a count.
C28_Witness ==
  /\ maxLogs = 2
  /\ Len(hist) = 2
  /\ "count" \in DOMAIN hist[1]
  /\ hist[1].type = hist[2].type
  /\ hist[1].message = hist[2].message
  /\ logs = <<hist[2]>>
  /\ "count" \notin DOMAIN logs[1]
  /\ clock = 3

\* C29: the close event or the error event of a socket other than the one
\* the client holds leaves the client holding the same socket, in the same
\* state, so that sends still go to it.
C29_StaleEventsHarmless ==
  [][\A s \in Sockets :
       (/\ ws # NoSocket
        /\ ws # s
        /\ SockClose(s, SessionReason(s)) \/ SockError(s)) =>
         (ws' = ws /\ sockState'[ws] = sockState[ws])]_vars

\* C29 witness: the client holds the open socket 2, and the close event of
\* socket 1 was handled after socket 2 had become the connection.
C29_Witness ==
  /\ ws = 2
  /\ sockState[2] = "open"
  /\ sockState[1] = "closed"
  /\ \E i \in setupsOn(2), j \in emitsOf("close", 1) : i < j

\* C30: 'close' is emitted only while the client holds no connection; in
\* particular when disconnect() closed a socket and connect was called
\* afterwards, the close event of the old socket emits 'close' only if the
\* client holds no connection at that moment.
C30_CloseMeansNotConnected ==
  [][\A s \in Sockets :
       (/\ sockState[s] = "closing"
        /\ last.call = "connect"
        /\ SockClose(s, SessionReason(s))) =>
         (/\ Last(trace') = emit("close", s, [reason |-> <<>>])
          /\ ws' = NoSocket)]_vars

\* ---------------------------------------------------------------
\* Claims about the parts of a model turn (DemuxSpec)
\* ---------------------------------------------------------------

\* How many times part p of the frame is handed to the subscribers in the
\* piece of trace t: as the payload of an 'audio' event, or as a member of
\* a 'content' event.
deliveries(p, t) ==
  LET audio == payloads(t, "audio")
      content == payloads(t, "content")
  IN  Cardinality({i \in 1..Len(audio) :
                     claimAudio(p) /\ audio[i] = [bytesOf |-> p.id]})
      + Cardinality({c \in (1..Len(content)) \X (1..MaxParts + 1) :
                       c[2] <= Len(content[c[1]]) /\ content[c[1]][c[2]] = p})

\* C31: no part of a model turn is lost: when the modelTurn branch handles a
\* frame, each of its parts is delivered to the subscribers exactly once,
\* audio/pcm parts whose data is empty or missing included.
C31_NoPartLost ==
  (recvAt > 0 /\ reachesModelTurn(recvFrame)) =>
    \A i \in 1..Len(recvFrame.parts) :
      deliveries(recvFrame.parts[i], recvOut) = 1

\* ---------------------------------------------------------------
\* Claims about the three sends (Spec)
\* ---------------------------------------------------------------

\* C32: each call of send, sendRealtimeInput or sendToolResponse is all or
\* nothing: a call that succeeds writes exactly one frame, on the socket the
\* client holds, and then emits exactly one log entry; a call that fails
\* writes nothing, emits nothing and leaves connection and config alone.
C32_SendAllOrNothing ==
  [][\A op \in SendOps, chunks \in SessionChunks :
       Send(op, chunks) =>
         /\ ws' = ws
         /\ config' = config
         /\ sockState' = sockState
         /\ IF last'.failed
            THEN trace' = trace
            ELSE /\ ws # NoSocket
                 /\ Len(trace') = Len(trace) + 2
                 /\ SubSeq(trace', 1, Len(trace)) = trace
                 /\ trace'[Len(trace) + 1].k = "write"
                 /\ trace'[Len(trace) + 1].sock = ws
                 /\ trace'[Len(trace) + 2].k = "log"]_vars

\* C32 witness: sendToolResponse succeeded on the open socket 1: its frame,
\* then its log entry, end the trace.
C32_Witness ==
  /\ last = [call |-> "send", failed |-> FALSE]
  /\ ws = 1
  /\ Len(trace) >= 2
  /\ trace[Len(trace) - 1] = E("write", "toolResponse", 1, <<>>)
  /\ Last(trace) = log("client.toolResponse", 1, "toolResponse")

\* ---------------------------------------------------------------
\* Liveness of the close notification (LiveSpec)
\* ---------------------------------------------------------------

\* C33: once disconnect() has closed a connection (it returned true and the
\* socket is closing), exactly one 'close' event is eventually emitted for
\* that socket, after its client.close log entry.
C33_CloseEventuallyEmitted ==
  \A s \in Sockets :
    (sockState[s] = "closing" /\ closeL[s]) ~>
      (/\ Cardinality(emitsOf("close", s)) = 1
       /\ \E i \in logsOf("client.close", s) :
            \A j \in emitsOf("close", s) : i < j)

\* C33 witness: disconnect() closed socket 1, a second connection was
\* opened, and the close event of socket 1 then emitted its one 'close'.
C33_Witness ==
  /\ sockState[1] = "closed"
  /\ Cardinality(logsOf("client.close", 1)) = 1
  /\ Cardinality(emitsOf("close", 1)) = 1
  /\ \E i \in logsOf("client.close", 1), j \in emitsOf("close", 1) : i < j
  /\ Last(trace) = emit("close", 1, [reason |-> <<>>])
  /\ ws = 2

\* ---------------------------------------------------------------
\* Claims about the store's capacity (StoreSpec)
\* ---------------------------------------------------------------

\* C34: setMaxLogs(n) changes the capacity and nothing else: the stored
\* entries stay as they are, even when there are more than n of them; and
\* an append that repeats the last entry drops no entry either, so entries
\* are trimmed only by a later append of a different entry.
C34_SetCapacityKeepsEntries ==
  [][/\ \A n \in 1..MaxCap :
          SetMaxLogs(n) => (logs' = logs /\ maxLogs' = n)
     /\ \A type \in LogTypes, message \in LogMessages :
          (/\ lastKey = <<type, message>>
           /\ AddLog(type, message)) =>
            (Len(logs') = Len(logs) /\ Front(logs') = Front(logs))]_vars

\* C34 witness: three entries were stored, the capacity was then set to 2,
\* and a repeat of the last entry was counted: all three are still stored.
C34_Witness ==
  /\ maxLogs = 2
  /\ Len(logs) = 3
  /\ "count" \in DOMAIN logs[3]
  /\ logs[3].count = 1
  /\ logs[3].date = 4
  /\ "count" \notin DOMAIN logs[1]
  /\ "count" \notin DOMAIN logs[2]
====
